---- MODULE Spec2Model ----
(***************************************************************************)
(* The /metadata and /download handlers of function_app.py.                *)
(*                                                                         *)
(* Several requests are in flight at once.  Each one runs its handler as a *)
(* sequence of steps that touch the only shared resource, the temporary    *)
(* directory `fs`:  validate, NamedTemporaryFile, write, the call into the *)
(* delta_sharing library, the building of the response and os.remove in   *)
(* the finally clause.  A step that raises ends in the outer `except        *)
(* Exception` handler, which returns the 500 envelope.                     *)
(***************************************************************************)
EXTENDS Integers, Sequences, FiniteSets, TLC

\* ------------------------------------------------------------------ bounds
NumReq    == 2      \* requests in flight
NumPaths  == 2      \* names the temporary directory can hand out
MaxListed == 3      \* length of a listing under SpecList (one request)

Reqs  == 1 .. NumReq
Paths == 1 .. NumPaths

\* ------------------------------------------------------- bytes and strings
\* Bytes are sequences of 0..255, text is a sequence of code points.
NoFile == << -1 >>                 \* the path does not exist

RECURSIVE encode(_)
\* str.encode(): UTF-8.  A lone surrogate raises UnicodeEncodeError.
encode(s) ==
    IF s = << >> THEN [ok |-> TRUE, bytes |-> << >>]
    ELSE LET c    == Head(s)
             rest == encode(Tail(s))
             one  == IF c < 128 THEN << c >>
                     ELSE IF c < 2048
                          THEN << 192 + (c \div 64), 128 + (c % 64) >>
                          ELSE << 224 + (c \div 4096),
                                  128 + ((c \div 64) % 64),
                                  128 + (c % 64) >>
         IN  IF (c >= 55296 /\ c <= 57343) \/ ~rest.ok
             THEN [ok |-> FALSE, bytes |-> << >>]
             ELSE [ok |-> TRUE, bytes |-> one \o rest.bytes]

TextE    == << 233 >>              \* "e" with an acute accent: two bytes
TextBad  == << 55296 >>            \* "\ud800", valid JSON, not encodable
BytesA   == << 65 >>
BytesE   == << 195, 169 >>

\* The sharing-config documents the remote side knows.
ConfigBytes == { BytesA, BytesE }

\* ------------------------------------------------------------ JSON values
JNull    == [t |-> "null", v |-> 0]
JNum(n)  == [t |-> "num",  v |-> n]
JStr(s)  == [t |-> "str",  v |-> s]
JArr(a)  == [t |-> "arr",  v |-> a]
JObj(o)  == [t |-> "obj",  v |-> o]

\* Python truthiness of a parsed JSON value (`not x`, all([...])).
Truthy(j) ==
    CASE j.t = "null" -> FALSE
      [] j.t = "num"  -> j.v # 0
      [] j.t = "str"  -> j.v # << >>
      [] j.t = "arr"  -> j.v # << >>
      [] j.t = "obj"  -> DOMAIN j.v # {}

\* dict.get(key): None when the key is absent.
get(o, key) == IF key \in DOMAIN o.v THEN o.v[key] ELSE JNull

Fields == { "config", "share", "schema", "table" }

\* ------------------------------------------------------------- the inputs
S1 == << 115, 49 >>                \* "s1"
S2 == << 115, 50 >>                \* "s2"
C1 == << 99, 49 >>                 \* "c1"
C2 == << 99, 50 >>                 \* "c2"
T1 == << 116, 49 >>                \* "t1"
T2 == << 116, 50 >>                \* "t2"
ShareNames  == { S1, S2 }
SchemaNames == { C1, C2 }
TableNames  == { T1, T2 }
Triples     == [share : ShareNames, schema : SchemaNames, name : TableNames]

\* /metadata: the raw body.
MetadataBodies == { << >>, BytesA, BytesE }

FullObject(cfg) ==
    [f \in Fields |->
        CASE f = "config" -> cfg
          [] f = "share"  -> JStr(S1)
          [] f = "schema" -> JStr(C1)
          [] f = "table"  -> JStr(T1)]

Restrict(o, D) == [f \in D |-> o[f]]

\* /download: the raw body, [kind, json]: no bytes at all, bytes that are no
\* JSON, or a JSON value.
DownloadJson ==
       { JNull, JNum(5), JArr(<< 1 >>) }
  \cup { JObj(Restrict(FullObject(JStr(TextE)), D)) : D \in SUBSET Fields }
  \cup { JObj(FullObject(c)) : c \in { JStr(TextBad), JStr(<< >>), JNum(5) } }

JsonBody(j) == [kind |-> "json", json |-> j]

DownloadBodies ==
       { [kind |-> "empty",   json |-> JNull],
         [kind |-> "garbage", json |-> JNull] }
  \cup { JsonBody(j) : j \in DownloadJson }

NoInput == [route |-> "none", body |-> << >>]

MetadataRequest(body) == [route |-> "metadata", body |-> body]
DownloadRequest(body) == [route |-> "download", body |-> body]

\* Every request of the model.
AllRequests ==
       { MetadataRequest(b) : b \in MetadataBodies }
  \cup { DownloadRequest(b) : b \in DownloadBodies }

\* The requests that take each way through the two handlers once.
CoreRequests ==
    { MetadataRequest(<< >>), MetadataRequest(BytesA), MetadataRequest(BytesE),
      DownloadRequest([kind |-> "empty", json |-> JNull]),
      DownloadRequest(JsonBody(JObj(FullObject(JStr(TextE))))),
      DownloadRequest(JsonBody(JObj(FullObject(JNum(5))))),
      DownloadRequest(JsonBody(JObj(Restrict(FullObject(JStr(TextE)),
                                             Fields \ { "table" })))) }

\* ------------------------------------------------------------------ state
VARIABLES
    catalog,    \* the remote side: config document -> its list of tables
    workload,   \* the requests the clients send
    fs,         \* the temporary directory: path -> bytes, or NoFile
    pc,         \* where each request is in its handler
    input,      \* the request: route and body
    path,       \* temp_config_path (0: none)
    exc,        \* the exception that waits for `finally`, as str(e)
    ret,        \* the value of the `return` that waits for `finally`
    result,     \* what the library call did (all_tables / df, or raised)
    resp,       \* the responses the handler has returned
    steps,      \* history: the pipeline steps taken
    libRead     \* history: what the library read from the temp file

vars == << catalog, workload, fs, pc, input, path, exc, ret, result, resp, steps, libRead >>

NoRet    == [status_code |-> 0, mimetype |-> "none", body |-> [none |-> TRUE]]
NoResult == [state |-> "none", val |-> << >>, msg |-> ""]

\* func.HttpResponse(json.dumps({"error": m}), status_code=code,
\*                   mimetype="application/json")
ErrorResponse(code, m) ==
    [status_code |-> code, mimetype |-> "application/json",
     body |-> [error |-> m]]

RECURSIVE SeqsUpTo(_, _)
SeqsUpTo(S, n) ==
    IF n = 0 THEN { << >> }
    ELSE LET shorter == SeqsUpTo(S, n - 1)
         IN  shorter \cup { Append(q, x) : q \in shorter, x \in S }

\* ---------------------------------------------------------- the messages
MsgNoConfig   == "No config file provided"
MsgInvalid    == "Invalid request body"
MsgMissing    == "Missing required parameters: config, share, schema, table"
MsgNotJson    == "HTTP request does not contain valid JSON data"
MsgNoGet      == "object has no attribute 'get'"
MsgNoEncode   == "object has no attribute 'encode'"
MsgSurrogate  == "surrogates not allowed"
MsgNoSpace    == "No space left on device"
MsgNoName     == "No usable temporary file name found"
MsgRemove     == "cannot remove the temporary file"
MsgCsv        == "cannot encode the table"
MsgMalformed  == "lib: malformed profile"
MsgUnknown    == "lib: unknown table"
LibErrors     == { "lib: endpoint unreachable" }

\* ------------------------------------------------------------- grouping
EmptyDict == [k \in {} |-> 0]

AddTableFront(metadata, table) ==
    LET m1 == IF table.share \notin DOMAIN metadata
              THEN metadata @@ (table.share :> EmptyDict)
              ELSE metadata
        m2 == IF table.schema \notin DOMAIN m1[table.share]
              THEN [m1 EXCEPT ![table.share] = @ @@ (table.schema :> << >>)]
              ELSE m1
    IN  [m2 EXCEPT ![table.share][table.schema] = << table.name >> \o @]
\* One turn of the loop of get_metadata over all_tables.
AddTable(metadata, table) ==
    LET share_name  == table.share
        schema_name == table.schema
        table_name  == table.name
        m1 == IF share_name \notin DOMAIN metadata
              THEN metadata @@ (share_name :> EmptyDict)
              ELSE metadata
        m2 == IF schema_name \notin DOMAIN m1[share_name]
              THEN [m1 EXCEPT ![share_name] = @ @@ (schema_name :> << >>)]
              ELSE m1
    IN  [m2 EXCEPT ![share_name][schema_name] = Append(@, table_name)]

RECURSIVE GroupFrom(_, _)
GroupFrom(metadata, all_tables) ==
    IF all_tables = << >> THEN metadata
    ELSE GroupFrom(AddTable(metadata, Head(all_tables)), Tail(all_tables))

\* metadata = {} ; for table in all_tables: ...
Group(all_tables) == GroupFrom(EmptyDict, all_tables)

\* ------------------------------------------------------------- the steps
Log(r, s) == steps' = [steps EXCEPT ![r] = Append(@, s)]

\* The handler goes on at label l.
Goto(r, l) ==
    /\ pc' = [pc EXCEPT ![r] = l]
    /\ UNCHANGED resp

\* `return func.HttpResponse(...)` leaves the handler: the response goes out
\* and the handler's locals are gone.
Return(r, rsp) ==
    /\ resp' = [resp EXCEPT ![r] = Append(@, rsp)]
    /\ pc'   = [pc EXCEPT ![r] = "done"]
    /\ path' = [path EXCEPT ![r] = 0]
    /\ exc'  = [exc EXCEPT ![r] = ""]
    /\ ret'  = [ret EXCEPT ![r] = NoRet]

Escape(r, m) ==
    /\ pc'   = [pc EXCEPT ![r] = "done"]
    /\ path' = [path EXCEPT ![r] = 0]
    /\ exc'  = [exc EXCEPT ![r] = m]
    /\ UNCHANGED << resp, ret >>
\* An exception reaches `except Exception as e`, which returns the 500
\* envelope with str(e).
Raise(r, m) == Return(r, ErrorResponse(500, m))

BodyUnchecked(config_content) == FALSE
\* `not config_content` on the bytes of req.get_body()
NoBody(config_content) == config_content = << >>

\* get_metadata, from the arrival of the request to the body check.
get_metadata_validate(r) ==
    /\ pc[r] = "idle"
    /\ \E req \in workload :
        LET config_content == req.body
        IN  /\ req.route = "metadata"
            /\ input' = [input EXCEPT ![r] = req]
            /\ IF NoBody(config_content)
               THEN Return(r, ErrorResponse(400, MsgNoConfig))
               ELSE Goto(r, "mktemp") /\ UNCHANGED << path, exc, ret >>
    /\ Log(r, "validate")
    /\ UNCHANGED << catalog, workload, fs, result, libRead >>

\* req.get_json(): ValueError when the body is no JSON.
get_json(body) ==
    IF body.kind = "json"
    THEN [ok |-> TRUE,  val |-> body.json, msg |-> ""]
    ELSE [ok |-> FALSE, val |-> JNull,     msg |-> MsgNotJson]

OnlyConfigGiven(req_json) == Truthy(get(req_json, "config"))
\* all([config_content, share, schema, table]) on the four req_json.get(...)
AllGiven(req_json) == \A f \in Fields : Truthy(get(req_json, f))

\* download_data, from the arrival of the request to the parameter check.
download_data_validate(r) ==
    /\ pc[r] = "idle"
    /\ \E req \in workload :
        LET parsed   == get_json(req.body)
            req_json == parsed.val
        IN  /\ req.route = "download"
            /\ input' = [input EXCEPT ![r] = req]
            /\ IF ~parsed.ok
               THEN Raise(r, parsed.msg)
               ELSE IF ~Truthy(req_json)
               THEN Return(r, ErrorResponse(400, MsgInvalid))
               ELSE IF req_json.t # "obj"
               THEN Raise(r, MsgNoGet)
               ELSE IF ~AllGiven(req_json)
               THEN Return(r, ErrorResponse(400, MsgMissing))
               ELSE Goto(r, "mktemp") /\ UNCHANGED << path, exc, ret >>
    /\ Log(r, "validate")
    /\ UNCHANGED << catalog, workload, fs, result, libRead >>

\* The locals of the handlers, read back from the request.
req_json_of(r) == input[r].body.json
config_content_of(r) ==
    IF input[r].route = "metadata" THEN input[r].body
    ELSE get(req_json_of(r), "config")
share_of(r)  == get(req_json_of(r), "share").v
schema_of(r) == get(req_json_of(r), "schema").v
table_of(r)  == get(req_json_of(r), "table").v

\* ------------------------------------------------ the temporary directory
AnyName == Paths
\* tempfile opens the new name with O_EXCL: only a name nothing has.
FreeNames == { p \in Paths : fs[p] = NoFile }

\* tempfile.NamedTemporaryFile(delete=False, suffix=".share"): a new, empty
\* file, or an OSError (no name left, no permission).
NamedTemporaryFile(r) ==
    /\ pc[r] = "mktemp"
    /\ \/ \E p \in FreeNames :
            /\ fs'   = [fs EXCEPT ![p] = << >>]
            /\ path' = [path EXCEPT ![r] = p]
            /\ Goto(r, "write")
            /\ Log(r, "create")
            /\ UNCHANGED << exc, ret >>
       \/ /\ Raise(r, MsgNoName)
          /\ Log(r, "create_failed")
          /\ UNCHANGED fs
    /\ UNCHANGED << catalog, workload, input, result, libRead >>

get_metadata_mktemp(r)  == input[r].route = "metadata" /\ NamedTemporaryFile(r)
download_data_mktemp(r) == input[r].route = "download" /\ NamedTemporaryFile(r)

\* temp_config.write(data) and the close at the end of the `with` block: the
\* file holds the data, or the write fails and the file stays as created.
\* The `with` block does not delete the file (delete=False), and the inner
\* try with its `finally` has not been entered yet.
WriteFile(r, data) ==
    \/ /\ fs' = [fs EXCEPT ![path[r]] = data]
       /\ Goto(r, "lib")
       /\ Log(r, "write")
       /\ UNCHANGED << path, exc, ret >>
    \/ /\ Raise(r, MsgNoSpace)
       /\ Log(r, "write_failed")
       /\ UNCHANGED fs

get_metadata_write(r) ==
    /\ pc[r] = "write"
    /\ input[r].route = "metadata"
    /\ WriteFile(r, config_content_of(r))
    /\ UNCHANGED << catalog, workload, input, result, libRead >>

download_data_write(r) ==
    /\ pc[r] = "write"
    /\ input[r].route = "download"
    /\ LET config_content == config_content_of(r)
       IN  IF config_content.t # "str"
           THEN Raise(r, MsgNoEncode) /\ Log(r, "write_failed") /\ UNCHANGED fs
           ELSE IF ~encode(config_content.v).ok
           THEN Raise(r, MsgSurrogate) /\ Log(r, "write_failed") /\ UNCHANGED fs
           ELSE WriteFile(r, encode(config_content.v).bytes)
    /\ UNCHANGED << catalog, workload, input, result, libRead >>

\* ------------------------------------------------------------ the library
\* The library reads the profile at the path it is given, by name.
ReadProfile(p) == fs[p]

\* An exception inside the inner try waits for `finally`.
RaiseInner(r, m) ==
    /\ exc' = [exc EXCEPT ![r] = m]
    /\ Goto(r, "finally")

LibReturned(r, val) ==
    /\ result' = [result EXCEPT ![r] = [state |-> "returned", val |-> val, msg |-> ""]]
    /\ Goto(r, "encode")
    /\ UNCHANGED exc

LibRetried(r, m) ==
    /\ result' = [result EXCEPT ![r] = [state |-> "raised", val |-> << >>, msg |-> m]]
    /\ Goto(r, "lib")
    /\ UNCHANGED exc
\* The library raised: no second attempt, the exception is on its way out.
LibRaised(r, m) ==
    /\ result' = [result EXCEPT ![r] = [state |-> "raised", val |-> << >>, msg |-> m]]
    /\ RaiseInner(r, m)

\* delta_sharing.SharingClient(temp_config_path).list_all_tables()
list_all_tables(r) ==
    /\ pc[r] = "lib"
    /\ input[r].route = "metadata"
    /\ LET profile == ReadProfile(path[r])
       IN  /\ libRead' = [libRead EXCEPT ![r] = profile]
           /\ \/ \E m \in LibErrors : LibRaised(r, m)
              \/ IF profile \in DOMAIN catalog
                 THEN LibReturned(r, catalog[profile])
                 ELSE LibRaised(r, MsgMalformed)
    /\ Log(r, "library")
    /\ UNCHANGED << catalog, workload, fs, input, path, ret >>

\* table_url = f"{temp_config_path}#{share}.{schema}.{table}"
table_url(r) ==
    [path |-> path[r], share |-> share_of(r), schema |-> schema_of(r),
     name |-> table_of(r)]

InList(x, q) == \E i \in 1 .. Len(q) : q[i] = x

\* delta_sharing.load_as_pandas(table_url): the rows of the table, here the
\* identity of the table they came from.
load_as_pandas(r) ==
    /\ pc[r] = "lib"
    /\ input[r].route = "download"
    /\ LET url     == table_url(r)
           profile == ReadProfile(url.path)
           wanted  == [share |-> url.share, schema |-> url.schema, name |-> url.name]
       IN  /\ libRead' = [libRead EXCEPT ![r] = profile]
           /\ \/ \E m \in LibErrors : LibRaised(r, m)
              \/ IF profile \notin DOMAIN catalog
                 THEN LibRaised(r, MsgMalformed)
                 ELSE IF ~InList(wanted, catalog[profile])
                 THEN LibRaised(r, MsgUnknown)
                 ELSE LibReturned(r, << profile, wanted >>)
    /\ Log(r, "library")
    /\ UNCHANGED << catalog, workload, fs, input, path, ret >>

\* ----------------------------------------------------------- the response
\* The grouping loop and `return func.HttpResponse(json.dumps(metadata), 200)`:
\* the value waits for the `finally` clause.
get_metadata_response(r) ==
    /\ pc[r] = "encode"
    /\ input[r].route = "metadata"
    /\ LET all_tables == result[r].val
           metadata   == Group(all_tables)
       IN  ret' = [ret EXCEPT ![r] =
                    [status_code |-> 200, mimetype |-> "application/json",
                     body |-> [metadata |-> metadata]]]
    /\ Goto(r, "finally")
    /\ Log(r, "encode")
    /\ UNCHANGED << catalog, workload, fs, input, path, exc, result, libRead >>

\* df.to_csv(...) and `return func.HttpResponse(csv_content, 200, "text/csv",
\* Content-Disposition)`; turning the table into text can fail.
download_data_response(r) ==
    /\ pc[r] = "encode"
    /\ input[r].route = "download"
    /\ \/ LET df          == result[r].val
              csv_content == df
          IN  /\ ret' = [ret EXCEPT ![r] =
                          [status_code |-> 200, mimetype |-> "text/csv",
                           body |-> [csv |-> csv_content,
                                     filename |-> table_of(r)]]]
              /\ Goto(r, "finally")
              /\ Log(r, "encode")
              /\ UNCHANGED exc
       \/ /\ RaiseInner(r, MsgCsv)
          /\ Log(r, "encode_failed")
          /\ UNCHANGED ret
    /\ UNCHANGED << catalog, workload, fs, input, path, result, libRead >>

\* ---------------------------------------------------------------- finally
\* What was waiting for `finally` goes on: the exception to the outer
\* except, or the return value to the caller.
Resume(r) == IF exc[r] # "" THEN Raise(r, exc[r]) ELSE Return(r, ret[r])

RemoveFailureIgnored(r) == Resume(r)
\* os.remove raised inside `finally`: its exception replaces what was
\* waiting, and goes to the outer except.
RemoveFailed(r) == Raise(r, MsgRemove)

\* finally: os.remove(temp_config_path), then the pending return or raise.
Finally(r) ==
    /\ pc[r] = "finally"
    /\ \/ /\ fs[path[r]] # NoFile
          /\ fs' = [fs EXCEPT ![path[r]] = NoFile]
          /\ Resume(r)
          /\ Log(r, "release")
       \/ /\ RemoveFailed(r)
          /\ Log(r, "release_failed")
          /\ UNCHANGED fs
    /\ UNCHANGED << catalog, workload, input, result, libRead >>

get_metadata_finally(r)  == input[r].route = "metadata" /\ Finally(r)
download_data_finally(r) == input[r].route = "download" /\ Finally(r)

\* ------------------------------------------------------ specifications
get_metadata(r) ==
    \/ get_metadata_validate(r)
    \/ get_metadata_mktemp(r)
    \/ get_metadata_write(r)
    \/ list_all_tables(r)
    \/ get_metadata_response(r)
    \/ get_metadata_finally(r)

download_data(r) ==
    \/ download_data_validate(r)
    \/ download_data_mktemp(r)
    \/ download_data_write(r)
    \/ load_as_pandas(r)
    \/ download_data_response(r)
    \/ download_data_finally(r)

InitLocal ==
    /\ fs      = [p \in Paths |-> NoFile]
    /\ pc      = [r \in Reqs |-> "idle"]
    /\ input   = [r \in Reqs |-> NoInput]
    /\ path    = [r \in Reqs |-> 0]
    /\ exc     = [r \in Reqs |-> ""]
    /\ ret     = [r \in Reqs |-> NoRet]
    /\ result  = [r \in Reqs |-> NoResult]
    /\ resp    = [r \in Reqs |-> << >>]
    /\ steps   = [r \in Reqs |-> << >>]
    /\ libRead = [r \in Reqs |-> NoFile]

Table(sh, sc, n) == [share |-> sh, schema |-> sc, name |-> n]

\* A remote side where each config document lists its own tables.
Catalog ==
    (BytesA :> << Table(S2, C2, T2), Table(S2, C2, T1) >>) @@
    (BytesE :> << Table(S1, C1, T1) >>)

\* Concurrent requests, each one of the core requests, against that remote
\* side.
Init ==
    /\ catalog = Catalog
    /\ workload = CoreRequests
    /\ InitLocal

Next == \E r \in Reqs : get_metadata(r) \/ download_data(r)

Spec == Init /\ [][Next]_vars

\* One request, any request of the model, against a remote side that lists
\* any tables at all.
InitList ==
    /\ catalog \in { [c \in ConfigBytes |-> q] :
                        q \in SeqsUpTo(Triples, MaxListed) }
    /\ workload = AllRequests
    /\ InitLocal

NextList == get_metadata(1) \/ download_data(1)

SpecList == InitList /\ [][NextList]_vars


\* ------------------------------------------------------------ vocabulary
Done(r)      == pc[r] = "done"
Has(r, s)    == InList(s, steps[r])
Status(r)    == resp[r][1].status_code
Answered(r, code) == Len(resp[r]) = 1 /\ Status(r) = code

\* The {"error": <message>} envelope, with a message that is not empty.
IsErrorEnvelope(rsp) ==
    /\ rsp.mimetype = "application/json"
    /\ DOMAIN rsp.body = { "error" }
    /\ rsp.body.error # ""

IsMetadata(r) == input[r].route = "metadata"
IsDownload(r) == input[r].route = "download"

\* The bytes the request's own config stands for.
OwnBytes(r) ==
    IF IsMetadata(r) THEN input[r].body
    ELSE encode(config_content_of(r).v).bytes

\* A /download payload that is a JSON object without some of the four fields.
LacksField(r) ==
    /\ IsDownload(r)
    /\ input[r].body.kind = "json"
    /\ input[r].body.json.t = "obj"
    /\ Fields \ DOMAIN input[r].body.json.v # {}

\* ------------------------------------------------------------------- C1
\* C1: the temporary file a request created no longer exists once the
\* request has returned, on every exit path.  Finished requests hold no path,
\* so every file that exists belongs to a request still in flight.
C1_NoFileOutlivesItsRequest ==
    \A p \in Paths : fs[p] # NoFile => \E r \in Reqs : ~Done(r) /\ path[r] = p

\* ------------------------------------------------------------------- C2
\* C2: a /download payload that is a JSON object lacking any of config,
\* share, schema, table is answered 400 with the error envelope, creates no
\* temporary file and never reaches the library.
C2_MissingFieldIs400 ==
    \A r \in Reqs :
        LacksField(r) =>
            /\ Done(r)
            /\ Answered(r, 400)
            /\ IsErrorEnvelope(resp[r][1])
            /\ steps[r] = << "validate" >>
            /\ result[r] = NoResult
            /\ libRead[r] = NoFile

C2_Witness ==
    \E r \in Reqs :
        /\ LacksField(r)
        /\ Fields \ DOMAIN input[r].body.json.v = { "table" }
        /\ Answered(r, 400)

\* ------------------------------------------------------------------- C3
\* C3: a /metadata request with an empty body is answered 400 with a
\* non-empty error message; no temporary file, no library call.
C3_EmptyBodyIs400 ==
    \A r \in Reqs :
        (IsMetadata(r) /\ input[r].body = << >>) =>
            /\ Done(r)
            /\ Answered(r, 400)
            /\ IsErrorEnvelope(resp[r][1])
            /\ steps[r] = << "validate" >>
            /\ result[r] = NoResult
            /\ libRead[r] = NoFile

C3_Witness ==
    \E r \in Reqs : IsMetadata(r) /\ input[r].body = << >> /\ Answered(r, 400)

\* ------------------------------------------------------------------- C4
Holding(r) == path[r] # 0

\* C4: requests in flight never hold the same path; the file a request holds
\* exists and, from the write to the cleanup, holds that request's own
\* config; the library read exactly that; a 200 carries what the remote side
\* has for that config.
C4_NoSharedPath ==
    /\ \A r1, r2 \in Reqs : (r1 # r2 /\ Holding(r1)) => path[r1] # path[r2]
    /\ \A r \in Reqs :
        CASE pc[r] \in { "idle", "mktemp" } -> ~Holding(r)
          [] pc[r] = "write" -> fs[path[r]] = << >>
          [] pc[r] = "lib"   -> fs[path[r]] = OwnBytes(r)
          [] pc[r] \in { "encode", "finally" } ->
                /\ fs[path[r]] = OwnBytes(r)
                /\ libRead[r] = OwnBytes(r)
          [] Done(r) ->
                /\ ~Holding(r)
                /\ libRead[r] # NoFile => libRead[r] = OwnBytes(r)
                /\ (Answered(r, 200) /\ IsMetadata(r)) =>
                      resp[r][1].body.metadata = Group(catalog[OwnBytes(r)])
                /\ (Answered(r, 200) /\ IsDownload(r)) =>
                      resp[r][1].body.csv[1] = OwnBytes(r)

C4_Witness ==
    \E r1, r2 \in Reqs :
        /\ pc[r1] = "finally" /\ pc[r2] = "finally"
        /\ libRead[r1] = BytesA /\ libRead[r2] = BytesE
        /\ path[r1] # path[r2]

\* ------------------------------------------------------------------- C5
\* The table names of the triples of q under (sh, sc), in the order of q.
RECURSIVE Bucket(_, _, _)
Bucket(q, sh, sc) ==
    IF q = << >> THEN << >>
    ELSE IF Head(q).share = sh /\ Head(q).schema = sc
         THEN << Head(q).name >> \o Bucket(Tail(q), sh, sc)
         ELSE Bucket(Tail(q), sh, sc)

Buckets(tree) ==
    UNION { { << sh, sc >> : sc \in DOMAIN tree[sh] } : sh \in DOMAIN tree }

RECURSIVE Leaves(_, _)
Leaves(tree, B) ==
    IF B = {} THEN 0
    ELSE LET b == CHOOSE x \in B : TRUE
         IN  Len(tree[b[1]][b[2]]) + Leaves(tree, B \ { b })

\* tree is the share -> schema -> tables tree of the list q.
TreeOf(q, tree) ==
    /\ Leaves(tree, Buckets(tree)) = Len(q)
    /\ Buckets(tree) = { << q[i].share, q[i].schema >> : i \in 1 .. Len(q) }
    /\ \A sh \in DOMAIN tree : DOMAIN tree[sh] # {}
    /\ \A i \in 1 .. Len(q) :
          InList(q[i].name, tree[q[i].share][q[i].schema])
    /\ \A b \in Buckets(tree) : tree[b[1]][b[2]] = Bucket(q, b[1], b[2])

Listed(r) == Done(r) /\ IsMetadata(r) /\ result[r].state = "returned"

\* C5 as stated: whatever list the library returns, /metadata answers 200
\* with the tree of that list.
C5_ListedIsAlways200 ==
    \A r \in Reqs :
        Listed(r) =>
            /\ Answered(r, 200)
            /\ TreeOf(result[r].val, resp[r][1].body.metadata)

\* C5, amended: whatever list the library returns, /metadata answers 200 with
\* the tree of that list (N leaves, every triple under its own share and
\* schema, first-seen order per bucket, the empty tree for N = 0) when the
\* temporary file is then removed, and 500 when removing it fails.
C5_TreeUnlessCleanupFails ==
    \A r \in Reqs :
        Listed(r) =>
            IF Has(r, "release_failed")
            THEN Answered(r, 500)
            ELSE /\ Answered(r, 200)
                 /\ resp[r][1].mimetype = "application/json"
                 /\ TreeOf(result[r].val, resp[r][1].body.metadata)

C5_Witness ==
    \E r \in Reqs :
        /\ Listed(r)
        /\ Answered(r, 200)
        /\ LET q == result[r].val
           IN  /\ Len(q) >= 3
               /\ q[1].share = q[3].share /\ q[1].schema = q[3].schema
               /\ q[1].name = T2 /\ q[3].name = T1
               /\ q[2].schema # q[1].schema

\* ------------------------------------------------------------------- C6
\* C6: when the library call raised, the response is 500 with exactly the
\* library's message, also when the cleanup failed afterwards.
C6_LibraryMessageVerbatim ==
    \A r \in Reqs :
        (Done(r) /\ result[r].state = "raised") =>
            /\ Answered(r, 500)
            /\ IsErrorEnvelope(resp[r][1])
            /\ resp[r][1].body.error = result[r].msg

\* ------------------------------------------------------------------- C7
\* A problem with the shape of the request.
ShapeProblem(r) ==
    \/ IsMetadata(r) /\ input[r].body = << >>
    \/ /\ IsDownload(r)
       /\ \/ input[r].body.kind # "json"
          \/ input[r].body.json.t # "obj"
          \/ ~AllGiven(input[r].body.json)
          \/ get(input[r].body.json, "config").t # "str"

\* C7: every request-shape problem is answered 400, never 500.
C7_ShapeProblemIs400 ==
    \A r \in Reqs : (Done(r) /\ ShapeProblem(r)) => Answered(r, 400)

\* ------------------------------------------------------------------- C8
\* C8: a request that has ended has exactly one response and no exception
\* got out of the handler; before that it has none; a response that is not
\* 200 is 400 or 500 with the error envelope; a handler that has not
\* returned always has a next step.
C8_OneResponse ==
    \A r \in Reqs :
        /\ Done(r) => (Len(resp[r]) = 1 /\ exc[r] = "")
        /\ ~Done(r) => resp[r] = << >>
        /\ Len(resp[r]) = 1 =>
              /\ Status(r) \in { 200, 400, 500 }
              /\ Status(r) # 200 => IsErrorEnvelope(resp[r][1])
        /\ pc[r] \notin { "idle", "done" } =>
              ENABLED (get_metadata(r) \/ download_data(r))

C8_Witness ==
    \E r \in Reqs :
        /\ Done(r)
        /\ result[r].state = "returned"
        /\ Has(r, "release_failed")
        /\ Answered(r, 500)

\* ------------------------------------------------------------------- C9
\* C9: a temporary file that cannot be created or written, or cannot be
\* removed, gives 500 with the error envelope, also after the library call
\* succeeded; a 200 implies that the file was removed.
C9_StorageFailureIs500 ==
    \A r \in Reqs :
        Done(r) =>
            /\ (Has(r, "create_failed") \/ Has(r, "write_failed")
                    \/ Has(r, "release_failed")) =>
                  (Answered(r, 500) /\ IsErrorEnvelope(resp[r][1]))
            /\ Answered(r, 200) => steps[r][Len(steps[r])] = "release"

C9_Witness ==
    \E r \in Reqs :
        /\ Done(r)
        /\ IsDownload(r)
        /\ result[r].state = "returned"
        /\ Has(r, "encode")
        /\ Has(r, "release_failed")
        /\ Answered(r, 500)

\* ------------------------------------------------------------------ C10
\* The place of a step in the pipeline.
Rank ==
    [ validate |-> 1,
      create |-> 2,  create_failed |-> 2,
      write |-> 3,   write_failed |-> 3,
      library |-> 4,
      encode |-> 5,  encode_failed |-> 5,
      release |-> 6, release_failed |-> 6 ]

\* C10: the steps of a request run at most once each, in the order validate,
\* materialize, library, encode, release; the library is called only after
\* validation passed and the config was written in full, at most once; the
\* temporary file is released only after the library call is over.
C10_PipelineOrder ==
    \A r \in Reqs :
        /\ \A i \in 1 .. Len(steps[r]) - 1 :
              Rank[steps[r][i]] < Rank[steps[r][i + 1]]
        /\ Has(r, "library") =>
              /\ ~ShapeProblem(r)
              /\ Has(r, "validate") /\ Has(r, "create") /\ Has(r, "write")
              /\ libRead[r] = OwnBytes(r)
              /\ result[r].state # "none"
        /\ (Has(r, "release") \/ Has(r, "release_failed")) => Has(r, "library")
        /\ pc[r] \in { "idle", "mktemp", "write", "lib" } => result[r] = NoResult

C10_Witness ==
    \E r \in Reqs :
        /\ Done(r)
        /\ steps[r] = << "validate", "create", "write", "library", "encode",
                         "release" >>
====
